---- MODULE Spec2Model ----
(***************************************************************************)
(* netprobe: a command-line connectivity probe (src/src/main.rs).          *)
(*                                                                         *)
(* main() is one straight-line function.  It is modelled as a state        *)
(* machine whose program counter pc walks through the blocks of main:      *)
(*   "normalize" (l.67-96)  -> "header" (l.98-102) -> "dns" (l.104-135)    *)
(*   -> "tcp" (l.137-162) -> "http" (l.164-217) -> "final" (l.219-226)     *)
(*   -> "done", or "normalize" -> "exited" on std::process::exit(1).       *)
(*                                                                         *)
(* Text is a sequence of tokens (a String is the concatenation of its      *)
(* tokens); Option<T> is the empty sequence (None) or a one-element        *)
(* sequence (Some(x)).  The results of the resolver, of the TCP connect,   *)
(* of the HTTP request and of the clocks are inputs chosen by the          *)
(* environment.                                                            *)
(***************************************************************************)
EXTENDS Integers, Sequences, FiniteSets, TLC

VARIABLES
    args,           \* Args (l.48-63): target, json, timeout, follow_redirects
    pc,             \* position in main
    target_input,   \* Option: l.71
    host,           \* Option: l.85
    port,           \* Option: l.87
    probe_data,     \* Option: l.90, the ProbeResult record
    resolved_ip,    \* l.111: Option<SocketAddr>; None until the DNS stage binds it
    response,       \* l.184: Option, the response bound by the Ok arm of the request
    stdout,         \* the writes made by println!
    stderr,         \* the writes made by eprintln!
    exit_code,      \* Option: the exit status of the process
    calls           \* the calls made to the resolver, the socket and the HTTP client

vars == <<args, pc, target_input, host, port, probe_data, resolved_ip, response,
          stdout, stderr, exit_code, calls>>

-----------------------------------------------------------------------------
(* Bounds of the environment.                                              *)

MaxLatency == 2     \* measured durations are 1..MaxLatency (ms)
MaxAddrs == 2       \* the resolver returns at most MaxAddrs addresses

-----------------------------------------------------------------------------
(* Option<T>                                                               *)

None == <<>>
Some(x) == <<x>>
IsSome(o) == o # None
Unwrap(o) == o[1]
UnwrapOr(o, d) == IF o = None THEN d ELSE o[1]

Contains(s, tok) == \E i \in 1..Len(s) : s[i] = tok

\* t occurs in s as a contiguous run of tokens
HasText(s, t) ==
    \E i \in 0..(Len(s) - Len(t)) : \A j \in 1..Len(t) : s[i + j] = t[j]

-----------------------------------------------------------------------------
(* The command line.                                                       *)

SchemeTokens == {"https", "http", "ftp", "foo", "file"}
HostTokens == {"example.com", "10.0.0.1"}
PortTokens == {"80", "443", "8080", "70000"}

Targets ==
    { <<"example.com">>,
      <<"example.com", ":", "8080">>,
      <<"https", "://", "example.com">>,
      <<"https", "://", "example.com", ":", "443">>,
      <<"http", "://", "example.com">>,
      <<"http", "://", "example.com", ":", "8080">>,
      <<"http", "://", "10.0.0.1", ":", "443">>,
      <<"ftp", "://", "example.com">>,
      <<"foo", "://", "example.com">>,
      <<"file", "://", "/tmp">>,
      <<"example.com", ":", "70000">>,
      <<":", ":", ":", ":">>,
      << >> }

Timeouts == {0, 5}

ArgsSet ==
    [target : Targets, json : BOOLEAN, timeout : Timeouts,
     follow_redirects : BOOLEAN]

-----------------------------------------------------------------------------
(* 1. Input sanitization and parsing (l.69-96)                             *)

NormalizePrefixPlain(target) ==
    IF ~Contains(target, "://") THEN <<"http", "://">> \o target ELSE target

\* l.71-75: prepend https:// if the target holds no "://"
Normalize(target) ==
    IF ~Contains(target, "://") THEN <<"https", "://">> \o target ELSE target

\* the decimal value of a port token
ParseDec(tok) ==
    CASE tok = "80" -> 80
      [] tok = "443" -> 443
      [] tok = "8080" -> 8080
      [] tok = "70000" -> 70000

\* url::Url: the default port of the schemes that have one
KnownDefault(scheme) ==
    CASE scheme = "https" -> Some(443)
      [] scheme = "http" -> Some(80)
      [] scheme = "ftp" -> Some(21)
      [] OTHER -> None

UrlErr == [ok |-> FALSE, scheme |-> "", host |-> None, port |-> None]

\* l.77, Url::parse: scheme "://" host [":" port], or file "://" path.
\* A port above 65535 is rejected; a port equal to the scheme's default is
\* not kept (Url::port() is then None).
UrlParse(s) ==
    IF Len(s) = 3 /\ s[1] = "file" /\ s[2] = "://" /\ s[3] = "/tmp"
    THEN [ok |-> TRUE, scheme |-> "file", host |-> None, port |-> None]
    ELSE IF /\ Len(s) \in {3, 5}
            /\ s[1] \in SchemeTokens \ {"file"}
            /\ s[2] = "://"
            /\ s[3] \in HostTokens
    THEN IF Len(s) = 3
         THEN [ok |-> TRUE, scheme |-> s[1], host |-> Some(s[3]), port |-> None]
         ELSE IF s[4] = ":" /\ s[5] \in PortTokens /\ ParseDec(s[5]) <= 65535
              THEN [ok |-> TRUE, scheme |-> s[1], host |-> Some(s[3]),
                    port |-> IF KnownDefault(s[1]) = Some(ParseDec(s[5]))
                             THEN None ELSE Some(ParseDec(s[5]))]
              ELSE UrlErr
    ELSE UrlErr

\* Url::port_or_known_default (l.87)
PortOrKnownDefault(url) ==
    IF IsSome(url.port) THEN url.port ELSE KnownDefault(url.scheme)

\* l.85: url.host_str().unwrap_or("")
HostOf(url) == UnwrapOr(url.host, "")

\* l.87: url.port_or_known_default().unwrap_or(443)
PortOf(url) == UnwrapOr(PortOrKnownDefault(url), 443)

\* l.90-96: the record with every outcome pending
InitRecord(t, ts, p) ==
    [target |-> t,
     timestamp |-> ts,
     dns |-> [status |-> "pending", ip |-> None, latency_ms |-> None, error |-> None],
     tcp |-> [status |-> "pending", port |-> p, latency_ms |-> None, error |-> None],
     http |-> [status_code |-> None, latency_ms |-> None, headers |-> None,
               error |-> None]]

\* chrono::Local::now().to_rfc3339() (l.92)
Timestamps == {<<"2024-05-01T12:00:00+02:00">>}

\* the Display text of url::ParseError
ParseErrorText == <<"invalid URL">>

\* l.227: main returns
MainReturnExit == 0

InvalidUrlExitSuccess == MainReturnExit

\* l.81: std::process::exit(1)
InvalidUrlExit == 1

\* one write to a stream
Line(kind, n, glyph, text, doc) ==
    [kind |-> kind, n |-> n, glyph |-> glyph, text |-> text, doc |-> doc]

Init ==
    /\ args \in ArgsSet
    /\ pc = "normalize"
    /\ target_input = None
    /\ host = None
    /\ port = None
    /\ probe_data = None
    /\ resolved_ip = None
    /\ response = None
    /\ stdout = <<>>
    /\ stderr = <<>>
    /\ exit_code = None
    /\ calls = <<>>

\* l.67-96
NormalizeInput ==
    /\ pc = "normalize"
    /\ LET ti == Normalize(args.target)
           url == UrlParse(ti)
       IN  IF ~url.ok
           THEN /\ stderr' = Append(stderr,
                        Line("error", 0, "cross",
                             <<"Invalid URL format: ">> \o ParseErrorText, None))
                /\ exit_code' = Some(InvalidUrlExit)
                /\ pc' = "exited"
                /\ target_input' = Some(ti)
                /\ UNCHANGED <<host, port, probe_data>>
           ELSE /\ \E ts \in Timestamps :
                       probe_data' = Some(InitRecord(ti, ts, PortOf(url)))
                /\ target_input' = Some(ti)
                /\ host' = Some(HostOf(url))
                /\ port' = Some(PortOf(url))
                /\ pc' = "header"
                /\ UNCHANGED <<stderr, exit_code>>
    /\ UNCHANGED <<args, resolved_ip, response, stdout, calls>>

Println(out, json, line) == IF ~json THEN Append(out, line) ELSE out

Separator == Line("separator", 0, "", <<"--------------------------------------------------">>, None)

HeaderLinesAlways(json, t) ==
    <<Line("header", 0, "", <<"Probing Target: ">> \o t, None), Separator>>

\* l.99-102: the header and a separator, only if not in JSON mode
HeaderLines(json, t) ==
    IF ~json
    THEN <<Line("header", 0, "", <<"Probing Target: ">> \o t, None), Separator>>
    ELSE <<>>

\* l.98-102
Header ==
    /\ pc = "header"
    /\ stdout' = stdout \o HeaderLines(args.json, Unwrap(target_input))
    /\ pc' = "dns"
    /\ UNCHANGED <<args, target_input, host, port, probe_data, resolved_ip, response,
                   stderr, exit_code, calls>>

-----------------------------------------------------------------------------
(* Step 1: DNS resolution (l.104-135)                                      *)

IPs == {"93.184.216.34", "2606:2800:220:1::1"}
Latencies == 1..MaxLatency

DnsErrors == {"dns_unknown_name", "dns_temporary"}
TcpErrors == {"tcp_refused", "tcp_timed_out"}
HttpErrors == {"http_connect", "http_timed_out"}

\* e.to_string(): the Display text of an error
ErrorText(e) ==
    CASE e = "dns_unknown_name" ->
            <<"failed to lookup address information: ", "Name or service not known">>
      [] e = "dns_temporary" ->
            <<"failed to lookup address information: ", "Temporary failure in name resolution">>
      [] e = "tcp_refused" -> <<"Connection refused (os error 111)">>
      [] e = "tcp_timed_out" -> <<"connection timed out">>
      [] e = "tcp_zero_timeout" -> <<"cannot set a 0 duration timeout">>
      [] e = "http_connect" -> <<"error sending request for url">>
      [] e = "http_timed_out" -> <<"operation timed out">>

SocketAddr(i, p) == [ip |-> i, port |-> p]

\* sequences of at most MaxAddrs socket addresses, all on port p
AddrSeqs(p) ==
    UNION {[1..n -> {SocketAddr(i, p) : i \in IPs}] : n \in 0..MaxAddrs}

\* the possible results of "host:port".to_socket_addrs() (l.108)
LookupResults(p) ==
    {[ok |-> TRUE, addrs |-> a, err |-> ""] : a \in AddrSeqs(p)}
    \cup {[ok |-> FALSE, addrs |-> <<>>, err |-> e] : e \in DnsErrors}

\* l.106: format!("{}:{}", host, port)
SocketAddrStr(h, p) == <<h, ":", ToString(p)>>

Call(op, arg, addr, timeout) ==
    [op |-> op, arg |-> arg, addr |-> addr, timeout |-> timeout]

\* l.114-116
DnsOk(pd, ip, d) ==
    [pd EXCEPT !.dns.status = "ok",
               !.dns.ip = Some(ip.ip),
               !.dns.latency_ms = Some(d)]

\* l.119
DnsOkLine(ip, d) ==
    Line("stage", 1, "check", <<"DNS Resolution", ip.ip, "(", ToString(d), "ms)">>, None)

\* l.123-124
DnsNoIp(pd) ==
    [pd EXCEPT !.dns.status = "error",
               !.dns.error = Some(<<"No IP found">>)]

\* l.125
DnsNoIpLine ==
    Line("stage", 1, "cross", <<"DNS Resolution", "Failed: ", "No IP found">>, None)

DnsErrKeepsPending(pd, e) ==
    [pd EXCEPT !.dns.error = Some(ErrorText(e))]

\* l.130-131
DnsErr(pd, e) ==
    [pd EXCEPT !.dns.status = "error",
               !.dns.error = Some(ErrorText(e))]

DnsErrLineGeneric(e) ==
    Line("stage", 1, "cross", <<"DNS Resolution", "Error: ", "lookup failed">>, None)

\* l.132
DnsErrLine(e) ==
    Line("stage", 1, "cross", <<"DNS Resolution", "Error: ">> \o ErrorText(e), None)

\* l.104-135
DnsStage ==
    /\ pc = "dns"
    /\ LET h == Unwrap(host)
           p == Unwrap(port)
           pd == Unwrap(probe_data)
       IN  /\ calls' = Append(calls,
                  Call("to_socket_addrs", SocketAddrStr(h, p), None, None))
           /\ \E ip_lookup \in LookupResults(p), dns_duration \in Latencies :
                IF ip_lookup.ok
                THEN IF Len(ip_lookup.addrs) > 0
                     THEN LET ip == Head(ip_lookup.addrs)
                          IN  /\ probe_data' = Some(DnsOk(pd, ip, dns_duration))
                              /\ stdout' = Println(stdout, args.json,
                                                   DnsOkLine(ip, dns_duration))
                              /\ resolved_ip' = Some(ip)
                     ELSE /\ probe_data' = Some(DnsNoIp(pd))
                          /\ stdout' = Println(stdout, args.json, DnsNoIpLine)
                          /\ resolved_ip' = None
                ELSE /\ probe_data' = Some(DnsErr(pd, ip_lookup.err))
                     /\ stdout' = Println(stdout, args.json,
                                          DnsErrLine(ip_lookup.err))
                     /\ resolved_ip' = None
    /\ pc' = "tcp"
    /\ UNCHANGED <<args, target_input, host, port, response, stderr, exit_code>>

-----------------------------------------------------------------------------
(* Step 2: TCP handshake (l.137-162)                                       *)

\* the possible results of TcpStream::connect_timeout (l.141); the zero
\* Duration is always refused as an invalid argument
ConnectResults(timeout) ==
    IF timeout = 0
    THEN {[ok |-> FALSE, err |-> "tcp_zero_timeout"]}
    ELSE {[ok |-> TRUE, err |-> ""]}
         \cup {[ok |-> FALSE, err |-> e] : e \in TcpErrors}

TcpOkNoLatency(pd, d) ==
    [pd EXCEPT !.tcp.status = "ok"]

\* l.144-145
TcpOk(pd, d) ==
    [pd EXCEPT !.tcp.status = "ok",
               !.tcp.latency_ms = Some(d)]

\* l.148
TcpOkLine(p, d) ==
    Line("stage", 2, "check",
         <<"TCP Handshake", "Port ", ToString(p), " Open", "(", ToString(d), "ms)">>,
         None)

\* l.152-153
TcpErr(pd, e) ==
    [pd EXCEPT !.tcp.status = "error",
               !.tcp.error = Some(ErrorText(e))]

\* l.156
TcpErrLine ==
    Line("stage", 2, "cross", <<"TCP Handshake", "Connection Refused or Timeout">>, None)

TcpNextPcHalts(res) == IF res.ok THEN "http" ELSE "final"

\* l.158-164: control continues with the HTTP step whatever the result
TcpNextPc(res) == "http"

\* l.137-162
TcpStage ==
    /\ pc = "tcp"
    /\ IF IsSome(resolved_ip)
       THEN LET ip == Unwrap(resolved_ip)
                pd == Unwrap(probe_data)
            IN  /\ calls' = Append(calls,
                       Call("connect_timeout", <<>>, Some(ip), Some(args.timeout)))
                /\ \E res \in ConnectResults(args.timeout), tcp_duration \in Latencies :
                     /\ IF res.ok
                        THEN /\ probe_data' = Some(TcpOk(pd, tcp_duration))
                             /\ stdout' = Println(stdout, args.json,
                                              TcpOkLine(Unwrap(port), tcp_duration))
                        ELSE /\ probe_data' = Some(TcpErr(pd, res.err))
                             /\ stdout' = Println(stdout, args.json, TcpErrLine)
                     /\ pc' = TcpNextPc(res)
       ELSE /\ pc' = "http"
            /\ UNCHANGED <<probe_data, stdout, calls>>
    /\ UNCHANGED <<args, target_input, host, port, resolved_ip, response, stderr,
                   exit_code>>

-----------------------------------------------------------------------------
(* Step 3: HTTP/HTTPS request (l.164-217)                                  *)

\* l.168-172
RedirectPolicy(follow) == IF follow THEN "limited(10)" ELSE "none"

\* l.175-179: the client the builder is asked for
BuiltClient(a) ==
    [timeout |-> Some(a.timeout),
     redirect |-> RedirectPolicy(a.follow_redirects),
     user_agent |-> Some("NetProbe/1.0")]

\* reqwest::Client::default(): no timeout, at most 10 redirects, no user agent
DefaultClient ==
    [timeout |-> None, redirect |-> "limited(10)", user_agent |-> None]

\* l.180: build().unwrap_or_default()
ClientOf(a, build_ok) == IF build_ok THEN BuiltClient(a) ELSE DefaultClient

StatusCodes == {200, 301, 404}
ResponseHeaderNames == {"server", "content-type", "date"}

\* a header value: its bytes, and whether they are all visible ASCII
HeaderValues ==
    {[bytes |-> <<"nginx">>, visible |-> TRUE],
     [bytes |-> <<"caf", "0xE9">>, visible |-> FALSE]}

Responses ==
    [status : StatusCodes,
     headers : [ResponseHeaderNames -> {None} \cup {Some(v) : v \in HeaderValues}]]

\* the possible results of client.head(..).send().await (l.183)
SendResults ==
    {[ok |-> TRUE, response |-> r, err |-> ""] : r \in Responses}
    \cup {[ok |-> FALSE,
           response |-> [status |-> 0, headers |-> [n \in ResponseHeaderNames |-> None]],
           err |-> e] : e \in HttpErrors}

\* HeaderValue::to_str: the text if every byte is visible ASCII
ToStr(v) == IF v.visible THEN Some(v.bytes) ELSE None

CaptureHeadersAll(resp) ==
    {<<n, UnwrapOr(ToStr(Unwrap(resp.headers[n])), <<"unknown">>)>> :
        n \in {m \in ResponseHeaderNames : IsSome(resp.headers[m])}}

\* l.192-198: the map of the server and content-type headers that are present
CaptureHeaders(resp) ==
    {<<n, UnwrapOr(ToStr(Unwrap(resp.headers[n])), <<"unknown">>)>> :
        n \in {m \in {"server", "content-type"} : IsSome(resp.headers[m])}}

\* StatusCode::is_success, StatusCode::is_redirection
IsSuccess(status) == status >= 200 /\ status < 300
IsRedirection(status) == status >= 300 /\ status < 400

\* l.188-199
HttpOk(pd, resp, d) ==
    [pd EXCEPT !.http.status_code = Some(resp.status),
               !.http.latency_ms = Some(d),
               !.http.headers = Some(CaptureHeaders(resp))]

\* l.202-208
HttpOkLine(status, d) ==
    IF IsSuccess(status)
    THEN Line("stage", 3, "check",
              <<"HTTP Request", "Status: ", ToString(status), "(", ToString(d), "ms)">>,
              None)
    ELSE IF IsRedirection(status)
    THEN Line("stage", 3, "warning",
              <<"HTTP Request", "Status: ", ToString(status), "(Redirect)",
                "(", ToString(d), "ms)">>,
              None)
    ELSE Line("stage", 3, "cross",
              <<"HTTP Request", "Status: ", ToString(status), "(", ToString(d), "ms)">>,
              None)

HttpErrTouchesTcp(pd, e) ==
    [pd EXCEPT !.http.error = Some(ErrorText(e)),
               !.tcp.status = "error"]

\* l.212
HttpErr(pd, e) ==
    [pd EXCEPT !.http.error = Some(ErrorText(e))]

\* l.214
HttpErrLine(e) ==
    Line("stage", 3, "cross", <<"HTTP Request", "Error: ">> \o ErrorText(e), None)

\* l.164-217
HttpStage ==
    /\ pc = "http"
    /\ LET pd == Unwrap(probe_data)
       IN  \E build_ok \in BOOLEAN, res \in SendResults, http_duration \in Latencies :
             /\ calls' = Append(calls,
                    Call("head", Unwrap(target_input), None,
                         ClientOf(args, build_ok).timeout))
             /\ IF res.ok
                THEN /\ response' = Some(res.response)
                     /\ probe_data' = Some(HttpOk(pd, res.response, http_duration))
                     /\ stdout' = Println(stdout, args.json,
                                      HttpOkLine(res.response.status, http_duration))
                ELSE /\ response' = None
                     /\ probe_data' = Some(HttpErr(pd, res.err))
                     /\ stdout' = Println(stdout, args.json, HttpErrLine(res.err))
    /\ pc' = "final"
    /\ UNCHANGED <<args, target_input, host, port, resolved_ip, stderr, exit_code>>

-----------------------------------------------------------------------------
(* Final output (l.219-226)                                                *)

JNull == [t |-> "null"]
JStr(s) == [t |-> "string", v |-> s]
JNum(n) == [t |-> "number", v |-> n]
JOptStr(o) == IF o = None THEN JNull ELSE JStr(Unwrap(o))
JOptNum(o) == IF o = None THEN JNull ELSE JNum(Unwrap(o))
JOptMap(o) ==
    IF o = None THEN JNull
    ELSE [t |-> "object", v |-> {<<kv[1], JStr(kv[2])>> : kv \in Unwrap(o)}]

\* l.222, serde_json::to_string_pretty of the derived Serialize (l.12-43):
\* a None is written as null, a Some as its value
ToJson(pd) ==
    [target |-> JStr(pd.target),
     timestamp |-> JStr(pd.timestamp),
     dns |-> [status |-> JStr(pd.dns.status),
              ip |-> JOptStr(pd.dns.ip),
              latency_ms |-> JOptNum(pd.dns.latency_ms),
              error |-> JOptStr(pd.dns.error)],
     tcp |-> [status |-> JStr(pd.tcp.status),
              port |-> JNum(pd.tcp.port),
              latency_ms |-> JOptNum(pd.tcp.latency_ms),
              error |-> JOptStr(pd.tcp.error)],
     http |-> [status_code |-> JOptNum(pd.http.status_code),
               latency_ms |-> JOptNum(pd.http.latency_ms),
               headers |-> JOptMap(pd.http.headers),
               error |-> JOptStr(pd.http.error)]]

FinalLinesNoSeparator(json, pd) ==
    IF json THEN <<Line("json", 0, "", <<>>, Some(ToJson(pd)))>> ELSE <<>>

\* l.220-226: the JSON document, or the closing separator
FinalLines(json, pd) ==
    IF json
    THEN <<Line("json", 0, "", <<>>, Some(ToJson(pd)))>>
    ELSE <<Separator>>

\* l.219-227
FinalOutput ==
    /\ pc = "final"
    /\ stdout' = stdout \o FinalLines(args.json, Unwrap(probe_data))
    /\ exit_code' = Some(MainReturnExit)
    /\ pc' = "done"
    /\ UNCHANGED <<args, target_input, host, port, probe_data, resolved_ip, response,
                   stderr, calls>>

Next ==
    \/ NormalizeInput
    \/ Header
    \/ DnsStage
    \/ TcpStage
    \/ HttpStage
    \/ FinalOutput

Spec == Init /\ [][Next]_vars

-----------------------------------------------------------------------------
(* Properties                                                              *)

\* the target parsed: main is past l.83 and the record exists
Parsed == pc \notin {"normalize", "exited"}
Completed == pc = "done"
Record == Unwrap(probe_data)

CallOps == [i \in 1..Len(calls) |-> calls[i].op]
CountCalls(op) == Cardinality({i \in 1..Len(calls) : calls[i].op = op})
StageRank(op) ==
    CASE op = "to_socket_addrs" -> 1
      [] op = "connect_timeout" -> 2
      [] op = "head" -> 3

\* C1: in a run whose target parses the stages are attempted in the order
\* DNS, TCP, HTTP, each at most once; once the HTTP stage is over the DNS
\* lookup and the HTTP request have each been attempted exactly once, and the
\* TCP connect exactly once if the DNS stage produced an IP address and not
\* at all otherwise.
C1_StagesOnceInOrder ==
    /\ \A i, j \in 1..Len(calls) :
          i < j => StageRank(calls[i].op) < StageRank(calls[j].op)
    /\ pc \in {"final", "done"} =>
          /\ CountCalls("to_socket_addrs") = 1
          /\ CountCalls("head") = 1
          /\ CountCalls("connect_timeout") = IF IsSome(Record.dns.ip) THEN 1 ELSE 0

C1_Witness ==
    /\ Completed
    /\ Record.tcp.status = "error"
    /\ CallOps = <<"to_socket_addrs", "connect_timeout", "head">>

\* C2: when a run with a parsable target completes, dns.status is ok or
\* error, the http outcome holds a status_code or an error, and tcp.status is
\* still pending exactly when dns.status is error with no resolved ip
\* (otherwise it is ok or error).
C2_NoPendingAtCompletion ==
    Completed =>
        /\ Record.dns.status \in {"ok", "error"}
        /\ IsSome(Record.http.status_code) \/ IsSome(Record.http.error)
        /\ Record.tcp.status \in {"pending", "ok", "error"}
        /\ Record.tcp.status = "pending"
              <=> (Record.dns.status = "error" /\ Record.dns.ip = None)

C2_Witness ==
    /\ Completed
    /\ Record.dns.status = "error"
    /\ Record.tcp.status = "pending"
    /\ IsSome(Record.http.status_code)

OutcomeConsistent(o, not_run) ==
    /\ o.status = "ok" => IsSome(o.latency_ms) /\ o.error = None
    /\ o.status = "error" => IsSome(o.error)
    /\ not_run => o.status = "pending" /\ o.latency_ms = None /\ o.error = None

\* C3: in every state of the record, for the dns and the tcp outcome: status
\* ok implies latency_ms present and error absent, status error implies error
\* present, and a stage that has not run yet has status pending with
\* latency_ms and error absent.
C3_OutcomesConsistent ==
    Parsed =>
        /\ OutcomeConsistent(Record.dns, pc \in {"header", "dns"})
        /\ OutcomeConsistent(Record.tcp, pc \in {"header", "dns", "tcp"})

C3_Witness ==
    /\ pc = "http"
    /\ Record.dns.status = "ok"
    /\ Record.tcp.status = "ok"

\* C4: the process exits with code 0 in every run whose target parses,
\* whatever the outcomes of the stages; it exits with code 1 only when the
\* target fails to parse, and then before the record is created, before any
\* stage is attempted and without writing to standard output.
C4_ExitCodes ==
    /\ IsSome(exit_code) <=> pc \in {"done", "exited"}
    /\ Completed => exit_code = Some(0)
    /\ UrlParse(Normalize(args.target)).ok => pc # "exited" /\ exit_code \in {None, Some(0)}
    /\ pc = "exited" =>
          /\ ~UrlParse(Normalize(args.target)).ok
          /\ exit_code = Some(1)
          /\ probe_data = None
          /\ calls = <<>>
          /\ stdout = <<>>

C4_Witness ==
    /\ Completed
    /\ Record.dns.status = "ok"
    /\ Record.tcp.status = "error"
    /\ IsSome(Record.http.error)
    /\ exit_code = Some(0)

C5_State ==
    /\ args.json /\ Parsed /\ ~Completed => stdout = <<>>
    /\ args.json /\ Completed =>
          /\ Len(stdout) = 1
          /\ stdout[1].kind = "json"
          /\ stdout[1].doc = Some(ToJson(Record))
    /\ ~args.json => \A i \in 1..Len(stdout) : stdout[i].kind # "json"

\* C5: with --json, whatever the stage outcomes, standard output receives no
\* header, separator or stage line: nothing is written until the HTTP stage
\* has finished, and then exactly one write, the document of the whole
\* record; without --json the document is never written; and the mode never
\* changes during the run.
C5_JsonSingleWrite == [](C5_State) /\ [][args'.json = args.json]_vars

C5_Witness ==
    /\ Completed
    /\ args.json
    /\ Len(stdout) = 1
    /\ Record.dns.status = "error"
    /\ IsSome(Record.http.error)

\* the port written in the target, if one is; n is a normalized target that parses
ExplicitPort(n) == IF Len(n) = 5 /\ n[4] = ":" THEN Some(ParseDec(n[5])) ELSE None

C6_State ==
    Parsed =>
        LET n == Unwrap(target_input)
        IN  /\ n = IF Contains(args.target, "://") THEN args.target
                   ELSE <<"https", "://">> \o args.target
            /\ IsSome(ExplicitPort(n)) => port = ExplicitPort(n)
            /\ ExplicitPort(n) = None /\ n[1] = "https" => port = Some(443)
            /\ ExplicitPort(n) = None /\ n[1] = "http" => port = Some(80)
            /\ Record.tcp.port = Unwrap(port)
            /\ \A i \in 1..Len(calls) :
                  /\ calls[i].op = "to_socket_addrs" =>
                        /\ Len(calls[i].arg) = 3
                        /\ calls[i].arg[3] = ToString(Unwrap(port))
                  /\ calls[i].op = "connect_timeout" =>
                        Unwrap(calls[i].addr).port = Unwrap(port)

\* C6: for every target that parses, the port is the explicit port of the URL
\* when one is given and otherwise 443 for https and 80 for http; a target
\* with no "://" is first prefixed with https:// and a target with "://" is
\* used unchanged; the DNS lookup, the TCP connect and tcp.port of the record
\* all use that port, and no later step changes it.
C6_PortResolution ==
    /\ [](C6_State)
    /\ [][Parsed => port' = port /\ Unwrap(probe_data').tcp.port = Record.tcp.port]_vars

C6_Witness ==
    /\ Completed
    /\ args.target = <<"example.com">>
    /\ target_input = Some(<<"https", "://", "example.com">>)
    /\ port = Some(443)
    /\ CountCalls("connect_timeout") = 1

StageLines(n) == {i \in 1..Len(stdout) : stdout[i].kind = "stage" /\ stdout[i].n = n}

\* the line of stage n carries a failure glyph and the error text err
FailureLineCarries(n, err) ==
    \E i \in StageLines(n) :
        /\ stdout[i].glyph = "cross"
        /\ HasText(stdout[i].text, Unwrap(err))

\* C7 as stated: in human-readable mode, for each of the three stages, when
\* the stage fails its line carries a failure glyph and the error text stored
\* in the error field of its outcome.
C7_Original ==
    Parsed /\ ~args.json =>
        /\ IsSome(Record.dns.error) => FailureLineCarries(1, Record.dns.error)
        /\ IsSome(Record.tcp.error) => FailureLineCarries(2, Record.tcp.error)
        /\ IsSome(Record.http.error) => FailureLineCarries(3, Record.http.error)

\* C7 (amended): in human-readable mode, when the DNS stage or the HTTP stage
\* fails its line carries a failure glyph and the error text stored in the
\* error field of its outcome; when the TCP stage fails its line carries a
\* failure glyph and the fixed text "Connection Refused or Timeout", and the
\* error text is stored in tcp.error only.
C7_FailureLines ==
    Parsed /\ ~args.json =>
        /\ IsSome(Record.dns.error) => FailureLineCarries(1, Record.dns.error)
        /\ IsSome(Record.http.error) => FailureLineCarries(3, Record.http.error)
        /\ IsSome(Record.tcp.error) =>
              FailureLineCarries(2, Some(<<"Connection Refused or Timeout">>))

C7_Witness ==
    /\ Completed
    /\ ~args.json
    /\ Record.tcp.error = Some(ErrorText("tcp_refused"))
    /\ IsSome(Record.http.error)
    /\ Len(stdout) = 6

\* what each write is: its kind and its stage number
Shape == [i \in 1..Len(stdout) |-> <<stdout[i].kind, stdout[i].n>>]

ShapeHeader == <<<<"header", 0>>, <<"separator", 0>>>>
ShapeStage(n) == <<<<"stage", n>>>>
ShapeClose == <<<<"separator", 0>>>>

\* C8 as stated: in human-readable mode a run with a parsable target writes a
\* header naming the target, a separator, one line for each of the stages 1,
\* 2 and 3, and a closing separator, each stage's line being written when
\* the stage completes.
C8_Original ==
    Parsed /\ ~args.json =>
        /\ pc = "header" => Shape = <<>>
        /\ pc = "dns" => Shape = ShapeHeader
        /\ pc = "tcp" => Shape = ShapeHeader \o ShapeStage(1)
        /\ pc = "http" => Shape = ShapeHeader \o ShapeStage(1) \o ShapeStage(2)
        /\ pc = "final" =>
              Shape = ShapeHeader \o ShapeStage(1) \o ShapeStage(2) \o ShapeStage(3)
        /\ pc = "done" =>
              Shape = ShapeHeader \o ShapeStage(1) \o ShapeStage(2) \o ShapeStage(3)
                        \o ShapeClose
        /\ Len(stdout) > 0 => HasText(stdout[1].text, Unwrap(target_input))

\* the line of the TCP stage: written only if the stage ran
ShapeTcp == IF IsSome(Record.dns.ip) THEN ShapeStage(2) ELSE <<>>

\* C8 (amended): in human-readable mode a run with a parsable target writes,
\* in this order, a header naming the target, a separator, line 1 (DNS), line
\* 2 (TCP) only if the DNS stage produced an IP address (no line 2 when the
\* TCP stage is skipped), line 3 (HTTP) and a closing separator; each line is
\* written when its stage completes, before the next stage starts.
C8_HumanOutput ==
    Parsed /\ ~args.json =>
        /\ pc = "header" => Shape = <<>>
        /\ pc = "dns" => Shape = ShapeHeader
        /\ pc = "tcp" => Shape = ShapeHeader \o ShapeStage(1)
        /\ pc = "http" => Shape = ShapeHeader \o ShapeStage(1) \o ShapeTcp
        /\ pc = "final" =>
              Shape = ShapeHeader \o ShapeStage(1) \o ShapeTcp \o ShapeStage(3)
        /\ pc = "done" =>
              Shape = ShapeHeader \o ShapeStage(1) \o ShapeTcp \o ShapeStage(3)
                        \o ShapeClose
        /\ Len(stdout) > 0 => HasText(stdout[1].text, Unwrap(target_input))

C8_Witness ==
    /\ Completed
    /\ ~args.json
    /\ Record.dns.status = "error"
    /\ Len(stdout) = 5

HeaderKeys(h) == {kv[1] : kv \in h}

\* C9: after the HTTP stage the http outcome has one of two shapes: on
\* failure error is present and status_code, latency_ms and headers are
\* absent; on a response status_code, latency_ms and headers are present and
\* error is absent, and headers has no key other than server and
\* content-type, each present only if the response carried that header.
C9_HttpOutcomeShape ==
    pc \in {"final", "done"} =>
        LET h == Record.http
        IN  IF response = None
            THEN /\ IsSome(h.error)
                 /\ h.status_code = None
                 /\ h.latency_ms = None
                 /\ h.headers = None
            ELSE /\ h.error = None
                 /\ IsSome(h.status_code)
                 /\ IsSome(h.latency_ms)
                 /\ IsSome(h.headers)
                 /\ HeaderKeys(Unwrap(h.headers)) \subseteq {"server", "content-type"}
                 /\ \A k \in HeaderKeys(Unwrap(h.headers)) :
                       IsSome(Unwrap(response).headers[k])

C9_Witness ==
    /\ Completed
    /\ IsSome(response)
    /\ IsSome(Unwrap(response).headers["date"])
    /\ Unwrap(response).headers["content-type"] = None
    /\ HeaderKeys(Unwrap(Record.http.headers)) = {"server"}

DnsWritten == Record.dns # InitRecord(<<>>, <<>>, 0).dns
TcpWritten ==
    \/ Record.tcp.status # "pending"
    \/ IsSome(Record.tcp.latency_ms)
    \/ IsSome(Record.tcp.error)
HttpWritten == Record.http # InitRecord(<<>>, <<>>, 0).http

C10_Step ==
    Parsed =>
        LET new == Unwrap(probe_data')
        IN  /\ pc = "dns" => new.tcp = Record.tcp /\ new.http = Record.http
            /\ pc = "tcp" => new.dns = Record.dns /\ new.http = Record.http
            /\ pc = "http" => new.dns = Record.dns /\ new.tcp = Record.tcp
            /\ new.target = Record.target
            /\ new.timestamp = Record.timestamp
            /\ new.tcp.port = Record.tcp.port
            /\ DnsWritten => new.dns = Record.dns
            /\ TcpWritten => new.tcp = Record.tcp
            /\ HttpWritten => new.http = Record.http

\* C10: each stage changes only its own outcome of the record (the DNS stage
\* leaves tcp and http unchanged, the TCP stage dns and http, the HTTP stage
\* dns and tcp), no stage changes target, timestamp or tcp.port, and an
\* outcome that has been written is never written again.
C10_StageFrame == [][C10_Step]_vars

C10_Witness ==
    /\ Completed
    /\ DnsWritten
    /\ TcpWritten
    /\ HttpWritten
    /\ Record.tcp.status = "error"
    /\ IsSome(Record.http.error)
====
